---- MODULE Spec2Model ----
(***************************************************************************)
(* Model of mason/generate.py: TemplateCommand.handle and the template     *)
(* source resolver (handle_template, download, extract, is_url, splitext). *)
(* Strings and paths are sequences of one-character strings so that        *)
(* startswith / split / lower / normpath / splitext are computed, not      *)
(* assumed.  The filesystem is a function from normalised absolute paths   *)
(* to nodes.                                                               *)
(***************************************************************************)
EXTENDS Integers, Sequences, FiniteSets, TLC

\* ------------------------------------------------------------------------
\* String primitives (Python str methods used by the code)
\* ------------------------------------------------------------------------
Max(S) == CHOOSE x \in S : \A y \in S : y <= x

Min(S) == CHOOSE x \in S : \A y \in S : x <= y

StartsWith(s, p) == Len(s) >= Len(p) /\ SubSeq(s, 1, Len(p)) = p

EndsWith(s, p) == Len(s) >= Len(p) /\ SubSeq(s, Len(s) - Len(p) + 1, Len(s)) = p

Drop(s, n) == SubSeq(s, n + 1, Len(s))

Contains(s, c) == \E i \in 1..Len(s) : s[i] = c

Positions(s, c) == {i \in 1..Len(s) : s[i] = c}

LowerChar(c) ==
  CASE c = "H" -> "h" [] c = "T" -> "t" [] c = "P" -> "p" [] c = "A" -> "a"
    [] c = "R" -> "r" [] c = "Z" -> "z" [] OTHER -> c

Lower(s) == [i \in 1..Len(s) |-> LowerChar(s[i])]

\* s.rstrip(c)
RStrip(s, c) ==
  LET keep == {i \in 1..Len(s) : s[i] # c}
  IN  IF keep = {} THEN <<>> ELSE SubSeq(s, 1, Max(keep))

\* s.split(c)
RECURSIVE Split(_, _)
Split(s, c) ==
  IF Positions(s, c) = {} THEN <<s>>
  ELSE LET i == Min(Positions(s, c))
       IN  <<SubSeq(s, 1, i - 1)>> \o Split(Drop(s, i), c)

\* s.split(c)[-1]
LastSegment(s, c) == LET parts == Split(s, c) IN parts[Len(parts)]

\* c.join(parts)
RECURSIVE Join(_, _)
Join(parts, c) ==
  IF Len(parts) = 0 THEN <<>>
  ELSE IF Len(parts) = 1 THEN parts[1]
  ELSE parts[1] \o <<c>> \o Join(Tail(parts), c)

\* ------------------------------------------------------------------------
\* os.path functions
\* ------------------------------------------------------------------------
Cwd == <<"/", "w">>

Home == <<"/", "u">>

TmpRoot == <<"/", "T">>

DotDot == <<".", ".">>

RECURSIVE NormComps(_, _, _)
NormComps(comps, acc, initial) ==
  IF Len(comps) = 0 THEN acc
  ELSE LET comp == Head(comps)
           rest == Tail(comps)
       IN  IF comp = <<>> \/ comp = <<".">> THEN NormComps(rest, acc, initial)
           ELSE IF comp # DotDot \/ (initial = 0 /\ Len(acc) = 0)
                   \/ (Len(acc) > 0 /\ acc[Len(acc)] = DotDot)
                THEN NormComps(rest, Append(acc, comp), initial)
           ELSE IF Len(acc) > 0
                THEN NormComps(rest, SubSeq(acc, 1, Len(acc) - 1), initial)
           ELSE NormComps(rest, acc, initial)

\* posixpath.normpath
Normpath(p) ==
  IF p = <<>> THEN <<".">>
  ELSE LET initial == IF ~StartsWith(p, <<"/">>) THEN 0
                      ELSE IF StartsWith(p, <<"/", "/">>) /\ ~StartsWith(p, <<"/", "/", "/">>)
                           THEN 2 ELSE 1
           body == Join(NormComps(Split(p, "/"), <<>>, initial), "/")
           res == [i \in 1..initial |-> "/"] \o body
       IN  IF res = <<>> THEN <<".">> ELSE res

\* posixpath.join(a, b)
PathJoin(a, b) ==
  IF StartsWith(b, <<"/">>) THEN b
  ELSE IF a = <<>> \/ EndsWith(a, <<"/">>) THEN a \o b
  ELSE a \o <<"/">> \o b

\* posixpath.expanduser, for the current user ("~" and "~/...")
Expanduser(p) ==
  IF ~StartsWith(p, <<"~">>) THEN p
  ELSE LET sl == Positions(p, "/")
           i == IF sl = {} THEN Len(p) + 1 ELSE Min(sl)
       IN  IF i # 2 THEN p
           ELSE LET r == RStrip(Home, "/") \o Drop(p, i - 1)
                IN  IF r = <<>> THEN <<"/">> ELSE r

\* posixpath.abspath
Abspath(p) == Normpath(IF StartsWith(p, <<"/">>) THEN p ELSE PathJoin(Cwd, p))

\* posixpath.dirname of a normalised absolute path
Dirname(p) ==
  LET i == Max(Positions(p, "/"))
  IN  IF i = 1 THEN <<"/">> ELSE SubSeq(p, 1, i - 1)

\* posixpath.splitext
PosixSplitext(p) ==
  LET sl == Positions(p, "/")
      sepIndex == IF sl = {} THEN 0 ELSE Max(sl)
      dots == {i \in Positions(p, ".") : i > sepIndex}
      dotIndex == IF dots = {} THEN 0 ELSE Max(dots)
      lead == {i \in (sepIndex + 1)..(dotIndex - 1) : p[i] # "."}
  IN  IF dotIndex > sepIndex /\ lead # {}
      THEN <<SubSeq(p, 1, dotIndex - 1), Drop(p, dotIndex - 1)>>
      ELSE <<p, <<>> >>

\* TemplateCommand.splitext
splitext(the_path) ==
  LET be == PosixSplitext(the_path)
      base == be[1]
      ext == be[2]
  IN  IF EndsWith(Lower(base), <<".", "t", "a", "r">>)
      THEN <<SubSeq(base, 1, Len(base) - 4), SubSeq(base, Len(base) - 3, Len(base)) \o ext>>
      ELSE <<base, ext>>

\* TemplateCommand.url_schemes
url_schemes == { <<"h","t","t","p">>, <<"h","t","t","p","s">>, <<"f","t","p">> }

\* is_url without the scheme allow-list: anything with a ':' is a URL
is_url_any_scheme(template) == Contains(template, ":")

\* TemplateCommand.is_url
is_url(template) ==
  IF ~Contains(template, ":") THEN FALSE
  ELSE Lower(Split(template, ":")[1]) \in url_schemes

\* ------------------------------------------------------------------------
\* Bounds
\* ------------------------------------------------------------------------
\* number of handle_template calls made on one command object by the
\* direct-call driver
MaxCalls == 2

\* ------------------------------------------------------------------------
\* Path literals
\* ------------------------------------------------------------------------
FilePrefix == <<"f","i","l","e",":","/","/">>

DefaultDir == <<"/","d">>

P_t == <<"/","t">>

P_a_py == <<"a",".","p","y">>

P_a_zip == <<"a",".","z","i","p">>

P_http_a_zip == <<"h","t","t","p",":","/","/","h","/","a",".","z","i","p">>

\* the template references the driver may pass (options['template'])
Templates ==
  { P_t,                                                   \* existing directory
    <<"/","t","/">>,                                       \* same, unnormalised
    FilePrefix \o P_t,                                     \* file:///t
    <<"~","/","t">>,                                       \* directory under home
    <<"l">>,                                               \* relative directory
    P_a_zip,                                               \* local archive /w/a.zip
    FilePrefix \o P_a_zip,                                 \* file://a.zip
    <<"j",".","z","i","p">>,                               \* corrupt local archive
    <<"r",".","t","x","t">>,                               \* existing file, no archive suffix
    <<"/","n","x">>,                                       \* nothing there
    FilePrefix \o <<"/","n","x">>,                         \* file:///nx, nothing there
    P_http_a_zip,                                          \* http://h/a.zip
    <<"H","T","T","P",":","/","/","h","/","a">>,           \* HTTP://h/a
    <<"h","t","t","p","s",":","/","/","h","/","d","/">>,   \* https://h/d/
    <<"f","t","p",":","/","/","h","/","a",".","t","g","z">>, \* ftp://h/a.tgz
    <<"g","i","t",":","/","/","h","/","a">>,               \* git://h/a
    FilePrefix \o P_http_a_zip }                           \* file://http://h/a.zip

\* the target argument
Targets ==
  { <<"o">>,                       \* /w/o, absent
    <<"e">>,                       \* /w/e, exists
    <<"n","/","o">>,               \* /w/n/o, parent absent too
    P_a_zip \o <<"/","o">> }       \* parent is a regular file

\* [plugin.files for plugin in plugins]
PluginChoices ==
  { <<>>, << <<"/","p">> >>, << <<>>, <<"/","q">> >>, << <<"/","q">>, <<"/","p">> >> }

\* handle_extensions() output: each extension carries its leading dot
ExtensionChoices == { { <<".","p","y">> }, { <<".","t","x","t">>, <<".","m","d">> } }

ExtraFileChoices == { {}, { <<"b",".","t","x","t">> } }

\* ------------------------------------------------------------------------
\* Filesystem
\* ------------------------------------------------------------------------
DirNode == [type |-> "dir", content |-> <<>>, mode |-> "rw"]

FileNode(c, m) == [type |-> "file", content |-> c, mode |-> m]

\* file contents are sequences of tokens: "$" is the placeholder ${name},
\* "!" a byte sequence that is not valid UTF-8, "Z" a well-formed archive,
\* "J" a damaged one
InitialDirs ==
  { <<"/">>, Cwd, Home, TmpRoot, DefaultDir, P_t, <<"/","t","/","s">>,
    <<"/","t","/",".","g">>, <<"/","u","/","t">>, <<"/","w","/","l">>,
    <<"/","w","/","e">>, <<"/","p">>, <<"/","q">> }

InitialFiles ==
  [ p \in { P_t \o <<"/">> \o P_a_py, <<"/","t","/","b",".","t","x","t">>,
            <<"/","t","/","o",".","p","y","c">>, <<"/","t","/","s","/","c",".","p","y">>,
            <<"/","t","/",".","g","/","h">>, <<"/","u","/","t","/","m",".","p","y">>,
            <<"/","w","/","l","/","k",".","p","y">>,
            Cwd \o <<"/">> \o P_a_zip, <<"/","w","/","j",".","z","i","p">>,
            <<"/","w","/","r",".","t","x","t">>, <<"/","d","/","s",".","p","y">>,
            <<"/","p","/","a",".","p","y">>, <<"/","p","/","q",".","t","x","t">>,
            <<"/","q","/","v",".","p","y">> } |->
    CASE p = P_t \o <<"/">> \o P_a_py -> FileNode(<<"x","$">>, "rw")
      [] p = <<"/","t","/","b",".","t","x","t">> -> FileNode(<<"$">>, "ro")
      [] p = <<"/","t","/","s","/","c",".","p","y">> -> FileNode(<<"$","x">>, "rw")
      [] p = Cwd \o <<"/">> \o P_a_zip -> FileNode(<<"Z">>, "rw")
      [] p = <<"/","w","/","j",".","z","i","p">> -> FileNode(<<"J">>, "rw")
      [] p = <<"/","w","/","r",".","t","x","t">> -> FileNode(<<"Z">>, "rw")
      [] p = <<"/","p","/","a",".","p","y">> -> FileNode(<<"y">>, "rw")
      [] p = <<"/","q","/","v",".","p","y">> -> FileNode(<<"!">>, "rw")
      [] OTHER -> FileNode(<<"x">>, "rw") ]

InitialFs ==
  [ p \in InitialDirs \cup DOMAIN InitialFiles |->
      IF p \in InitialDirs THEN DirNode ELSE InitialFiles[p] ]

\* content of a well-formed archive: relative name -> content
ArchiveTree ==
  [ n \in { P_a_py, <<"r",".","m","d">> } |->
      IF n = P_a_py THEN <<"$">> ELSE <<"x","$">> ]

Digits == <<"1","2","3","4","5","6","7","8","9">>

VARIABLES
  driver,               \* "handle": the command runs; "resolver": handle_template is called directly
  hasTemplate,          \* options['template'] is not None
  template,             \* options['template']
  target,               \* the target argument
  plugins,              \* the files attribute of each plugin in options['plugins']
  extensions,           \* handle_extensions(options['extensions'])
  extra_files,          \* names given with --name
  fsys,                 \* the filesystem: normalised absolute path -> node
  fsys0,                \* the filesystem when the run started
  ntemp,                \* temporary directories made so far (mkdtemp names are unique)
  paths_to_remove,      \* self.paths_to_remove
  top_dir,              \* handle: top_dir
  project_template_dir, \* value returned by handle_template
  absolute_path,        \* handle_template: absolute_path
  tempdir,              \* download / extract: tempdir
  template_dirs,        \* handle: template_dirs
  di,                   \* index of template_dir in template_dirs
  pending,              \* os.walk: directories still to be visited under template_dir
  root,                 \* os.walk: current root
  files,                \* os.walk: files of the current root not yet processed
  new_path,             \* handle: new_path of the file processed last
  ri,                   \* index of path_to_remove in paths_to_remove
  calls,                \* handle_template calls made by the direct-call driver
  err,                  \* the exception that ended the run
  pc

vars == <<driver, hasTemplate, template, target, plugins, extensions, extra_files,
          fsys, fsys0, ntemp, paths_to_remove, top_dir, project_template_dir,
          absolute_path, tempdir, template_dirs, di, pending, root, files,
          new_path, ri, calls, err, pc>>

inputs == <<driver, hasTemplate, template, target, plugins, extensions, extra_files, fsys0>>

walkVars == <<template_dirs, di, pending, root, files, new_path>>

NoErr == [kind |-> "none", arg |-> <<>>]

\* os.path.exists / isdir / isfile on filesystem f
Exists(f, p) == Abspath(p) \in DOMAIN f

Isdir(f, p) == Exists(f, p) /\ f[Abspath(p)].type = "dir"

Isfile(f, p) == Exists(f, p) /\ f[Abspath(p)].type = "file"

\* proper ancestors of a normalised absolute path
Ancestors(p) == { <<"/">> } \cup { SubSeq(p, 1, i - 1) : i \in Positions(p, "/") \ {1} }

\* p is q or lies below q
Under(p, q) == p = q \/ StartsWith(p, q \o <<"/">>)

\* directory entries of normalised absolute directory d
Children(f, d) == { p \in DOMAIN f : p # <<"/">> /\ Dirname(p) = d }

Basename(p) == LastSegment(p, "/")

WithNode(f, p, node) == [ q \in DOMAIN f \cup {p} |-> IF q = p THEN node ELSE f[q] ]

Without(f, gone) == [ q \in DOMAIN f \ gone |-> f[q] ]

Init ==
  /\ driver \in {"handle", "resolver"}
  /\ hasTemplate \in BOOLEAN
  /\ template \in (IF hasTemplate THEN Templates ELSE { <<>> })
  /\ target \in (IF driver = "handle" THEN Targets ELSE { <<"o">> })
  /\ plugins \in (IF driver = "handle" THEN PluginChoices ELSE { <<>> })
  /\ extensions \in (IF driver = "handle" THEN ExtensionChoices ELSE { { <<".","p","y">> } })
  /\ extra_files \in (IF driver = "handle" THEN ExtraFileChoices ELSE { {} })
  /\ fsys = InitialFs
  /\ fsys0 = InitialFs
  /\ ntemp = 0
  /\ paths_to_remove = <<>>
  /\ top_dir = <<>>
  /\ project_template_dir = <<>>
  /\ absolute_path = <<>>
  /\ tempdir = <<>>
  /\ template_dirs = <<>>
  /\ di = 0
  /\ pending = {}
  /\ root = <<>>
  /\ files = {}
  /\ new_path = <<>>
  /\ ri = 0
  /\ calls = IF driver = "resolver" THEN 1 ELSE 0
  /\ err = NoErr
  /\ pc = IF driver = "handle" THEN "start" ELSE "resolve"

Fail(kind, arg) == pc' = "failed" /\ err' = [kind |-> kind, arg |-> arg]

\* Makedirs that tolerates an existing target (makedirs with exist_ok)
Makedirs_exist_ok ==
  /\ pc = "start"
  /\ LET td == PathJoin(Cwd, target)
         abs == Abspath(td)
         missing == { a \in Ancestors(abs) \cup {abs} : a \notin DOMAIN fsys }
     IN  /\ top_dir' = td
         /\ paths_to_remove' = <<>>
         /\ IF \E a \in Ancestors(abs) \cup {abs} : a \in DOMAIN fsys /\ fsys[a].type # "dir"
            THEN Fail("makedirs", td) /\ fsys' = fsys
            ELSE /\ fsys' = [ q \in DOMAIN fsys \cup missing |->
                               IF q \in missing THEN DirNode ELSE fsys[q] ]
                 /\ pc' = "resolve"
                 /\ err' = err
  /\ UNCHANGED <<inputs, ntemp, project_template_dir, absolute_path, tempdir,
                 walkVars, ri, calls>>

\* handle, lines 68-81: os.makedirs(top_dir)
Makedirs ==
  /\ pc = "start"
  /\ LET td == PathJoin(Cwd, target)
         abs == Abspath(td)
         missing == { a \in Ancestors(abs) \cup {abs} : a \notin DOMAIN fsys }
     IN  /\ top_dir' = td
         /\ paths_to_remove' = <<>>
         /\ IF abs \in DOMAIN fsys
            THEN Fail("exists", td) /\ fsys' = fsys
            ELSE IF \E a \in Ancestors(abs) : a \in DOMAIN fsys /\ fsys[a].type # "dir"
            THEN Fail("makedirs", td) /\ fsys' = fsys
            ELSE /\ fsys' = [ q \in DOMAIN fsys \cup missing |->
                               IF q \in missing THEN DirNode ELSE fsys[q] ]
                 /\ pc' = "resolve"
                 /\ err' = err
  /\ UNCHANGED <<inputs, ntemp, project_template_dir, absolute_path, tempdir,
                 walkVars, ri, calls>>

\* handle_template, lines 182-183: strip a leading file://
Stripped(t) == IF StartsWith(t, FilePrefix) THEN Drop(t, 7) ELSE t

\* handle_template, lines 184-185: expanded_template
Expanded(t) == Normpath(Expanduser(Stripped(t)))

\* handle_template, lines 179-180: no template given
HT_Default ==
  /\ pc = "resolve"
  /\ ~hasTemplate
  /\ project_template_dir' = DefaultDir
  /\ pc' = "resolved"
  /\ UNCHANGED <<inputs, fsys, ntemp, paths_to_remove, top_dir, absolute_path,
                 tempdir, walkVars, ri, calls, err>>

\* HT_Dir that records the directory as a path to remove
HT_Dir_owned ==
  /\ pc = "resolve"
  /\ hasTemplate
  /\ Isdir(fsys, Expanded(template))
  /\ project_template_dir' = Expanded(template)
  /\ paths_to_remove' = Append(paths_to_remove, Expanded(template))
  /\ pc' = "resolved"
  /\ UNCHANGED <<inputs, fsys, ntemp, top_dir, absolute_path,
                 tempdir, walkVars, ri, calls, err>>

\* handle_template, lines 186-187: the reference names a directory
HT_Dir ==
  /\ pc = "resolve"
  /\ hasTemplate
  /\ Isdir(fsys, Expanded(template))
  /\ project_template_dir' = Expanded(template)
  /\ pc' = "resolved"
  /\ UNCHANGED <<inputs, fsys, ntemp, paths_to_remove, top_dir, absolute_path,
                 tempdir, walkVars, ri, calls, err>>

\* handle_template, lines 188-190: the reference is a URL
HT_Url ==
  /\ pc = "resolve"
  /\ hasTemplate
  /\ ~Isdir(fsys, Expanded(template))
  /\ is_url(Stripped(template))
  /\ pc' = "download"
  /\ UNCHANGED <<inputs, fsys, ntemp, paths_to_remove, top_dir, project_template_dir,
                 absolute_path, tempdir, walkVars, ri, calls, err>>

\* handle_template, lines 191-197: the reference is a local path
HT_Local ==
  /\ pc = "resolve"
  /\ hasTemplate
  /\ ~Isdir(fsys, Expanded(template))
  /\ ~is_url(Stripped(template))
  /\ absolute_path' = Abspath(Expanded(template))
  /\ IF Exists(fsys, absolute_path')
     THEN pc' = "extract" /\ err' = err
     ELSE Fail("unresolved", Stripped(template))
  /\ UNCHANGED <<inputs, fsys, ntemp, paths_to_remove, top_dir, project_template_dir,
                 tempdir, walkVars, ri, calls>>

\* tempfile.mkdtemp: a fresh directory under the temp root
Mkdtemp(n) == TmpRoot \o <<"/", Digits[n + 1]>>

\* download, lines 203-210: cleanup_url(url)[0]
UrlFilename(url) == LastSegment(RStrip(url, "/"), "/")

\* download, lines 212-215
DownloadMkdtemp ==
  /\ pc = "download"
  /\ tempdir' = Mkdtemp(ntemp)
  /\ ntemp' = ntemp + 1
  /\ fsys' = WithNode(fsys, tempdir', DirNode)
  /\ paths_to_remove' = Append(paths_to_remove, tempdir')
  /\ pc' = "fetch"
  /\ UNCHANGED <<inputs, top_dir, project_template_dir, absolute_path, walkVars,
                 ri, calls, err>>

\* download, lines 219-223: urlretrieve raises IOError
FetchFail ==
  /\ pc = "fetch"
  /\ \E partial \in BOOLEAN :
       fsys' = IF partial
               THEN WithNode(fsys, Abspath(PathJoin(tempdir, UrlFilename(Stripped(template)))),
                             FileNode(<<>>, "rw"))
               ELSE fsys
  /\ Fail("download", Stripped(template))
  /\ UNCHANGED <<inputs, ntemp, paths_to_remove, top_dir, project_template_dir,
                 absolute_path, tempdir, walkVars, ri, calls>>

\* values of the content-disposition filename parameter (<<>>: no header)
DispositionNames ==
  { <<>>, <<"n",".","t","g","z">>, <<".",".","/","x",".","z","i","p">> }

ContentTypes == { "none", "application/zip", "x/unknown" }

\* mimetypes.guess_extension
GuessExtension(ct) == IF ct = "application/zip" THEN <<".","z","i","p">> ELSE <<>>

\* download, lines 225-241: guessed_filename
GuessedFilename(used_name, cd, ct) ==
  LET g == IF cd # <<>> THEN cd ELSE used_name
      ext == splitext(g)[2]
  IN  IF ext = <<>> /\ ct # "none" THEN g \o GuessExtension(ct) ELSE g

\* download, lines 219-251 and handle_template, lines 193-194
FetchOk ==
  /\ pc = "fetch"
  /\ \E body \in { <<"Z">>, <<"J">> }, cd \in DispositionNames, ct \in ContentTypes :
       LET the_path == PathJoin(tempdir, UrlFilename(Stripped(template)))
           fetched == WithNode(fsys, Abspath(the_path), FileNode(body, "rw"))
           used_name == LastSegment(the_path, "/")
           guessed_filename == GuessedFilename(used_name, cd, ct)
           guessed_path == PathJoin(tempdir, guessed_filename)
       IN  IF used_name # guessed_filename
           THEN /\ fsys' = WithNode(Without(fetched, {Abspath(the_path)}),
                                    Abspath(guessed_path), FileNode(body, "rw"))
                /\ absolute_path' = guessed_path
           ELSE /\ fsys' = fetched
                /\ absolute_path' = the_path
  /\ IF Exists(fsys', absolute_path')
     THEN pc' = "extract" /\ err' = err
     ELSE Fail("unresolved", Stripped(template))
  /\ UNCHANGED <<inputs, ntemp, paths_to_remove, top_dir, project_template_dir,
                 tempdir, walkVars, ri, calls>>

\* extract, lines 268-270
ExtractMkdtemp ==
  /\ pc = "extract"
  /\ tempdir' = Mkdtemp(ntemp)
  /\ ntemp' = ntemp + 1
  /\ fsys' = WithNode(fsys, tempdir', DirNode)
  /\ paths_to_remove' = Append(paths_to_remove, tempdir')
  /\ pc' = "unpack"
  /\ UNCHANGED <<inputs, top_dir, project_template_dir, absolute_path, walkVars,
                 ri, calls, err>>

\* django.utils.archive: suffixes with an unpacker
ArchiveSuffixes ==
  { <<".","t","a","r">>, <<".","t","g","z">>, <<".","t","z","2">>, <<".","z","i","p">> }

\* django.utils.archive.Archive._archive_cls: the last suffix, else the one before it
RecognisedArchive(filename) ==
  LET first == PosixSplitext(Lower(filename))
  IN  \/ first[2] \in ArchiveSuffixes
      \/ PosixSplitext(first[1])[2] \in ArchiveSuffixes

\* UnpackOk that deletes the download directory as soon as the archive is unpacked
UnpackOk_drop_download ==
  /\ pc = "unpack"
  /\ RecognisedArchive(absolute_path)
  /\ fsys[Abspath(absolute_path)].content = <<"Z">>
  /\ LET unpacked == [ q \in DOMAIN fsys \cup { tempdir \o <<"/">> \o n : n \in DOMAIN ArchiveTree } |->
                         IF q \in DOMAIN fsys THEN fsys[q]
                         ELSE FileNode(ArchiveTree[Drop(q, Len(tempdir) + 1)], "rw") ]
     IN  fsys' = IF Len(paths_to_remove) = 2
                 THEN Without(unpacked, { q \in DOMAIN unpacked : Under(q, paths_to_remove[1]) })
                 ELSE unpacked
  /\ project_template_dir' = tempdir
  /\ pc' = "resolved"
  /\ UNCHANGED <<inputs, ntemp, paths_to_remove, top_dir, absolute_path, tempdir,
                 walkVars, ri, calls, err>>

\* extract, lines 273-275: archive.extract succeeds
UnpackOk ==
  /\ pc = "unpack"
  /\ RecognisedArchive(absolute_path)
  /\ fsys[Abspath(absolute_path)].content = <<"Z">>
  /\ fsys' = [ q \in DOMAIN fsys \cup { tempdir \o <<"/">> \o n : n \in DOMAIN ArchiveTree } |->
                 IF q \in DOMAIN fsys THEN fsys[q]
                 ELSE FileNode(ArchiveTree[Drop(q, Len(tempdir) + 1)], "rw") ]
  /\ project_template_dir' = tempdir
  /\ pc' = "resolved"
  /\ UNCHANGED <<inputs, ntemp, paths_to_remove, top_dir, absolute_path, tempdir,
                 walkVars, ri, calls, err>>

\* extract, lines 273-278: archive.extract raises
UnpackFail ==
  /\ pc = "unpack"
  /\ IF ~RecognisedArchive(absolute_path)
     THEN Fail("extract", absolute_path)
     ELSE /\ fsys[Abspath(absolute_path)].content # <<"Z">>
          /\ Fail("archive", absolute_path)
  /\ UNCHANGED <<inputs, fsys, ntemp, paths_to_remove, top_dir, project_template_dir,
                 absolute_path, tempdir, walkVars, ri, calls>>

\* a second call of handle_template on the same command object
CallAgain ==
  /\ driver = "resolver"
  /\ pc \in {"resolved", "failed"}
  /\ calls < MaxCalls
  /\ calls' = calls + 1
  /\ pc' = "resolve"
  /\ err' = NoErr
  /\ UNCHANGED <<inputs, fsys, ntemp, paths_to_remove, top_dir, project_template_dir,
                 absolute_path, tempdir, walkVars, ri>>

\* handle, lines 110-113: template_dirs and the start of the walk
StartWalk ==
  /\ driver = "handle"
  /\ pc = "resolved"
  /\ template_dirs' = <<project_template_dir>> \o SelectSeq(plugins, LAMBDA d : d # <<>>)
  /\ di' = 1
  /\ pending' = IF Isdir(fsys, project_template_dir) THEN {project_template_dir} ELSE {}
  /\ root' = <<>>
  /\ files' = {}
  /\ pc' = "walk"
  /\ UNCHANGED <<inputs, fsys, ntemp, paths_to_remove, top_dir, project_template_dir,
                 absolute_path, tempdir, new_path, ri, calls, err>>

\* handle, lines 116-118: relative_dir of root r under template_dir td
RelativeDir(td, r) == Drop(r, Len(td) + 1)

\* handle, line 125: directories the walk does not descend into
Pruned(dirname) ==
  \/ StartsWith(dirname, <<".">>)
  \/ dirname = <<"_","_","p","y","c","a","c","h","e","_","_">>

\* handle, lines 114-126: os.walk yields the next root
EnterRoot ==
  /\ pc = "walk"
  /\ files = {}
  /\ \E r \in pending :
       LET relative_dir == RelativeDir(template_dirs[di], r)
           target_dir == PathJoin(top_dir, relative_dir)
           entries == Children(fsys, Abspath(r))
           subdirs == { PathJoin(r, Basename(p)) :
                          p \in { q \in entries : fsys[q].type = "dir" /\ ~Pruned(Basename(q)) } }
       IN  /\ root' = r
           /\ fsys' = IF relative_dir # <<>> /\ ~Exists(fsys, target_dir)
                      THEN WithNode(fsys, Abspath(target_dir), DirNode)
                      ELSE fsys
           /\ pending' = (pending \ {r}) \cup subdirs
           /\ files' = { Basename(p) : p \in { q \in entries : fsys[q].type = "file" } }
  /\ UNCHANGED <<inputs, ntemp, paths_to_remove, top_dir, project_template_dir,
                 absolute_path, tempdir, template_dirs, di, new_path, ri, calls, err, pc>>

\* handle, line 129: files that are never copied
SkipSuffixes == { <<".","p","y","o">>, <<".","p","y","c">>, <<".","p","y",".","c","l","a","s","s">> }

Skipped(filename) == \E s \in SkipSuffixes : EndsWith(filename, s)

\* ShouldRender that forgets the names given with --name
ShouldRender_extensions_only(filename) == \E e \in extensions : EndsWith(filename, e)

\* handle, line 144: the file is rendered rather than copied
ShouldRender(filename) ==
  \/ \E e \in extensions : EndsWith(filename, e)
  \/ filename \in extra_files

\* handle, line 145: content.decode('utf-8') succeeds
Decodable(content) == \A i \in 1..Len(content) : content[i] # "!"

\* handle, lines 146-148: Template(content).render(**context) with name = "b"
Render(content) == [ i \in 1..Len(content) |-> IF content[i] = "$" THEN "b" ELSE content[i] ]

\* handle, lines 155-156: shutil.copymode then make_writeable
DestMode(srcMode) == IF srcMode = "ro" THEN "rw" ELSE srcMode

\* handle, line 133: new_path of filename in the current root
DestPath(td, r, filename) == PathJoin(PathJoin(top_dir, RelativeDir(td, r)), filename)

\* CopyStep without the check for an existing destination
CopyStep_overwrite(filename) ==
  /\ files' = files \ {filename}
  /\ IF Skipped(filename)
     THEN UNCHANGED <<fsys, new_path, pc, err>>
     ELSE LET old_path == PathJoin(root, filename)
              np == PathJoin(PathJoin(top_dir, RelativeDir(template_dirs[di], root)), filename)
              src == fsys[Abspath(old_path)]
          IN  /\ new_path' = np
              /\ fsys' = WithNode(fsys, Abspath(np), FileNode(src.content, "rw"))
              /\ UNCHANGED <<pc, err>>

\* handle, lines 128-161: one iteration of the loop over files
CopyStep(filename) ==
  /\ files' = files \ {filename}
  /\ IF Skipped(filename)
     THEN UNCHANGED <<fsys, new_path, pc, err>>
     ELSE LET old_path == PathJoin(root, filename)
              np == DestPath(template_dirs[di], root, filename)
              src == fsys[Abspath(old_path)]
          IN  /\ new_path' = np
              /\ IF Exists(fsys, np)
                 THEN Fail("conflict", np) /\ fsys' = fsys
                 ELSE IF ShouldRender(filename) /\ ~Decodable(src.content)
                 THEN Fail("decode", old_path) /\ fsys' = fsys
                 ELSE /\ fsys' = WithNode(fsys, Abspath(np),
                                   FileNode(IF ShouldRender(filename)
                                            THEN Render(src.content) ELSE src.content,
                                            DestMode(src.mode)))
                      /\ UNCHANGED <<pc, err>>

CopyFile ==
  /\ pc = "walk"
  /\ \E filename \in files : CopyStep(filename)
  /\ UNCHANGED <<inputs, ntemp, paths_to_remove, top_dir, project_template_dir,
                 absolute_path, tempdir, template_dirs, di, pending, root, ri, calls>>

\* handle, line 113: the walk of one template_dir is over, the next one starts
NextDir ==
  /\ pc = "walk"
  /\ files = {}
  /\ pending = {}
  /\ di < Len(template_dirs)
  /\ di' = di + 1
  /\ pending' = IF Isdir(fsys, template_dirs[di + 1]) THEN {template_dirs[di + 1]} ELSE {}
  /\ root' = <<>>
  /\ UNCHANGED <<inputs, fsys, ntemp, paths_to_remove, top_dir, project_template_dir,
                 absolute_path, tempdir, template_dirs, files, new_path, ri, calls, err, pc>>

\* handle, line 163: all template_dirs are walked
FinishWalk ==
  /\ pc = "walk"
  /\ files = {}
  /\ pending = {}
  /\ di = Len(template_dirs)
  /\ ri' = 1
  /\ pc' = IF paths_to_remove # <<>> THEN "cleanup" ELSE "done"
  /\ UNCHANGED <<inputs, fsys, ntemp, paths_to_remove, top_dir, project_template_dir,
                 absolute_path, tempdir, walkVars, calls, err>>

\* handle, lines 167-171: os.remove or shutil.rmtree of one path
Removed(f, p) ==
  IF Isfile(f, p) THEN Without(f, {Abspath(p)})
  ELSE Without(f, { q \in DOMAIN f : Under(q, Abspath(p)) })

\* handle, lines 166-171: one iteration of the cleanup loop
RemovePath ==
  /\ pc = "cleanup"
  /\ ri <= Len(paths_to_remove)
  /\ IF Exists(fsys, paths_to_remove[ri])
     THEN /\ fsys' = Removed(fsys, paths_to_remove[ri])
          /\ ri' = ri + 1
          /\ pc' = IF ri = Len(paths_to_remove) THEN "done" ELSE "cleanup"
          /\ err' = err
     ELSE /\ Fail("rmtree", paths_to_remove[ri])
          /\ UNCHANGED <<fsys, ri>>
  /\ UNCHANGED <<inputs, ntemp, paths_to_remove, top_dir, project_template_dir,
                 absolute_path, tempdir, walkVars, calls>>

Next ==
  \/ Makedirs
  \/ HT_Default
  \/ HT_Dir
  \/ HT_Url
  \/ HT_Local
  \/ DownloadMkdtemp
  \/ FetchFail
  \/ FetchOk
  \/ ExtractMkdtemp
  \/ UnpackOk
  \/ UnpackFail
  \/ CallAgain
  \/ StartWalk
  \/ EnterRoot
  \/ CopyFile
  \/ NextDir
  \/ FinishWalk
  \/ RemovePath

Spec == Init /\ [][Next]_vars
\* ------------------------------------------------------------------------
\* Properties
\* ------------------------------------------------------------------------
ResolutionErrors == {"download", "extract", "archive", "unresolved"}

Recorded == { paths_to_remove[i] : i \in 1..Len(paths_to_remove) }

\* C1: when template resolution fails in a run of handle (download failure,
\* extraction failure, nothing usable), every temporary artifact recorded in
\* paths_to_remove has been deleted by the time the error is reported.
C1_CleanupOnResolutionFailure ==
  (driver = "handle" /\ pc = "failed" /\ err.kind \in ResolutionErrors)
    => \A p \in Recorded : ~Exists(fsys, p)

\* C2: if the target directory exists when handle is invoked, the run fails
\* with the already-exists error and creates nothing: the filesystem is as it
\* was, no resolution is started and no temporary artifact is made.
C2_ExistingTargetCreatesNothing ==
  /\ [][ (pc = "start" /\ Exists(fsys, PathJoin(Cwd, target)))
           => (pc' = "failed" /\ err'.kind = "exists") ]_vars
  /\ [](err.kind = "exists"
          => /\ pc = "failed"
             /\ fsys = fsys0
             /\ paths_to_remove = <<>>
             /\ ntemp = 0
             /\ project_template_dir = <<>>)

C2_Witness == pc = "failed" /\ err.kind = "exists" /\ target = <<"e">> /\ hasTemplate

\* C3: during the walk, when the destination of a file to be copied already
\* exists the run aborts with the already-exists error at that file: the
\* filesystem (the existing destination included) is unchanged by that step,
\* no file below the target is ever rewritten, and nothing is written after
\* the abort.
C3_ConflictAbortsWithoutOverwrite ==
  /\ [][ pc = "walk" =>
           \A f \in files \ files' :
             (~Skipped(f) /\ Exists(fsys, DestPath(template_dirs[di], root, f)))
               => (pc' = "failed" /\ err'.kind = "conflict" /\ fsys' = fsys) ]_vars
  /\ [][ \A p \in DOMAIN fsys :
           (top_dir # <<>> /\ Under(p, Abspath(top_dir)) /\ fsys[p].type = "file")
             => (p \in DOMAIN fsys' /\ fsys'[p] = fsys[p]) ]_vars
  /\ [][ (driver = "handle" /\ pc = "failed") => fsys' = fsys ]_vars

C3_Witness ==
  /\ pc = "failed"
  /\ err.kind = "conflict"
  /\ err.arg = <<"/","w","/","o","/">> \o P_a_py
  /\ fsys[err.arg].content = <<"x","b">>
  /\ files # {}

\* C4: after a run of handle that completes successfully no temporary
\* artifact created during resolution still exists.
C4_NoTempArtifactAfterSuccess ==
  pc = "done" => \A p \in DOMAIN fsys : Under(p, TmpRoot) => p \in DOMAIN fsys0

\* C5: a reference that, after stripping file:// and expanding and normalising,
\* names an existing directory makes handle_template return that directory,
\* record no temporary artifact and leave the filesystem alone, on every call;
\* and the directory and its content survive the whole run, cleanup included.
C5_DirectoryReferenceIsNotOwned ==
  /\ [][ (pc = "resolve" /\ hasTemplate /\ Isdir(fsys, Expanded(template)))
           => /\ pc' = "resolved"
              /\ project_template_dir' = Expanded(template)
              /\ fsys' = fsys
              /\ paths_to_remove' = paths_to_remove
              /\ ntemp' = ntemp ]_vars
  /\ []((hasTemplate /\ Isdir(fsys0, Expanded(template)))
          => /\ paths_to_remove = <<>>
             /\ \A p \in DOMAIN fsys0 :
                  Under(p, Abspath(Expanded(template)))
                    => (p \in DOMAIN fsys /\ fsys[p] = fsys0[p]))

C5_Witness ==
  /\ driver = "resolver"
  /\ calls = 2
  /\ pc = "resolved"
  /\ template = FilePrefix \o P_t
  /\ project_template_dir = P_t

\* C6: when the reference is neither a directory nor an existing file,
\* handle_template fails with the unresolved-template error, and the error
\* carries the reference exactly as the caller passed it.
C6_UnresolvedCarriesOriginalReference ==
  /\ [][ (pc = "resolve" /\ hasTemplate /\ ~Isdir(fsys, Expanded(template))
            /\ ~is_url(Stripped(template)) /\ ~Exists(fsys, Abspath(Expanded(template))))
           => (pc' = "failed" /\ err'.kind = "unresolved") ]_vars
  /\ [](err.kind = "unresolved" => err.arg = template)

\* the part of t before its first ':'
SchemeOf(t) == SubSeq(t, 1, Min(Positions(t, ":")) - 1)

AllowedSchemes == { <<"h","t","t","p">>, <<"h","t","t","p","s">>, <<"f","t","p">> }

Http == <<"h","t","t","p",":","/","/">>

Https == <<"h","t","t","p","s",":","/","/">>

Ftp == <<"f","t","p",":","/","/">>

Git == <<"g","i","t",":","/","/">>

References == Templates \cup { Stripped(t) : t \in Templates }

\* C7 as stated: is_url is true exactly when the reference has a ':' and the
\* text before the first ':' is one of http, https, ftp; a non-directory
\* reference goes to download if and only if is_url of it is true.
C7_Original ==
  /\ [](hasTemplate =>
          (is_url(template) <=> (Contains(template, ":") /\ SchemeOf(template) \in AllowedSchemes)))
  /\ [][ (pc = "resolve" /\ hasTemplate /\ ~Isdir(fsys, Expanded(template)))
           => ((pc' = "download") <=> is_url(template)) ]_vars

\* C7 amended: is_url is true exactly when the reference has a ':' and the
\* text before the first ':', lower-cased, is one of http, https, ftp (false
\* without ':', true for http://, https://, ftp://, false for git://); a
\* non-directory reference goes to download if and only if is_url is true of
\* the reference with a leading file:// removed, and to the local-archive
\* path otherwise.
C7_IsUrlAndRouting ==
  /\ [](\A t \in References :
          /\ is_url(t) <=> (Contains(t, ":") /\ Lower(SchemeOf(t)) \in AllowedSchemes)
          /\ ~Contains(t, ":") => ~is_url(t)
          /\ (StartsWith(t, Http) \/ StartsWith(t, Https) \/ StartsWith(t, Ftp)) => is_url(t)
          /\ StartsWith(t, Git) => ~is_url(t))
  /\ [][ (pc = "resolve" /\ hasTemplate /\ ~Isdir(fsys, Expanded(template)))
           => /\ (pc' = "download") <=> is_url(Stripped(template))
              /\ (absolute_path' = Abspath(Expanded(template)) /\ pc' \in {"extract", "failed"})
                   <=> ~is_url(Stripped(template)) ]_vars

C7_Witness ==
  /\ pc = "download"
  /\ template = <<"H","T","T","P",":","/","/","h","/","a">>

\* C8: a file copied into the target is the substitution-rendered source when
\* its name ends with a configured extension or is a listed filename, and is
\* identical to the source otherwise.
C8_RenderOrCopy ==
  [][ pc = "walk" =>
        \A f \in files \ files' :
          LET np == Abspath(DestPath(template_dirs[di], root, f))
              source == fsys[Abspath(PathJoin(root, f))].content
          IN  (np \notin DOMAIN fsys /\ np \in DOMAIN fsys')
                => fsys'[np].content =
                     IF (\E e \in extensions : EndsWith(f, e)) \/ f \in extra_files
                     THEN Render(source) ELSE source ]_vars

C8_Witness ==
  /\ pc = "done"
  /\ extra_files = {}
  /\ template = P_t
  /\ fsys[<<"/","w","/","o","/">> \o P_a_py].content = <<"x","b">>
  /\ fsys[<<"/","w","/","o","/","b",".","t","x","t">>].content = <<"$">>

\* C9: in every state, each temporary artifact this run put on the
\* filesystem lies in or below a path recorded in paths_to_remove.
C9_TempArtifactsRecorded ==
  \A p \in DOMAIN fsys :
    (p \notin DOMAIN fsys0 /\ Under(p, TmpRoot))
      => \E q \in Recorded : Under(p, Abspath(q))

\* C10: a call of handle_template records at most two temporary artifacts;
\* a recorded artifact, and anything in the resolved template directory, is
\* deleted only by the cleanup loop of handle, which runs only once every
\* template directory has been walked to the end.
C10_DeletionOnlyAfterWalk ==
  /\ [](Len(paths_to_remove) <= 2 * (IF driver = "handle" THEN 1 ELSE calls))
  /\ [][ (\E p \in DOMAIN fsys :
            /\ p \notin DOMAIN fsys'
            /\ \/ p \in { Abspath(q) : q \in Recorded }
               \/ (project_template_dir # <<>> /\ Under(p, Abspath(project_template_dir))))
           => /\ driver = "handle"
              /\ pc = "cleanup"
              /\ files = {}
              /\ pending = {}
              /\ di = Len(template_dirs) ]_vars
  /\ [](pc = "cleanup" => (files = {} /\ pending = {} /\ di = Len(template_dirs)))

C10_Witness ==
  /\ pc = "cleanup"
  /\ Len(paths_to_remove) = 2
  /\ ri = 2
  /\ ~Exists(fsys, paths_to_remove[1])
  /\ Exists(fsys, paths_to_remove[2])
====
